---- MODULE Spec2Model ----
(***************************************************************************)
(* Duplicate detection and score fusion of the AP FraudShield backend:     *)
(* Backend/vector_store.py (hash.json, docs.index, search_duplicate,       *)
(* add_to_index) and Backend/main.py (reset_system_data, lifespan,         *)
(* manual_reset, upload_scan).                                             *)
(*                                                                         *)
(* Floats are fixed-point ten-thousandths: 1.0 is 10000, 0.90 is 9000.     *)
(* A file is [st, data]: st is "missing" (os.path.exists is false), "bad"  *)
(* (exists, but json.load / faiss.read_index raises) or "ok" (loads to     *)
(* data). Writes are assumed to succeed.                                   *)
(***************************************************************************)
EXTENDS Integers, Sequences, FiniteSets, TLC

\* Largest ntotal of docs.index the model lets a commit start from.
MaxIndex == 2

\* Texts extract_text_from_file can hand over ("" when nothing is extracted).
Texts == {"", "a", "b", "c"}

\* Values of get_image_phash; "" is the missing hash.
Hashes == {"", "h1", "h2"}

\* Whether the embedding provider answers during a call.
Provider == {"up", "down"}

\* How the loaded SentenceTransformer encodes the empty string: a vector of
\* norm 0 or a proper vector. The source does not fix it.
Models == {"zero_on_empty", "unit_on_empty"}

VARIABLES
    model,      \* vector_store.model
    hashFile,   \* hash.json
    indexFile,  \* docs.index
    db,         \* main.db, kept to the result stored last (<<>>: db is empty)
    call,       \* the call that produced the current state, with its outcome
    procs       \* the upload in flight in each worker process

vars == <<model, hashFile, indexFile, db, call, procs>>

-----------------------------------------------------------------------------
(* Embeddings *)

\* model.encode([text]): a direction and a length.
Encode(m, text) ==
    CASE text = ""  -> [dir |-> 0, norm |-> IF m = "zero_on_empty" THEN 0 ELSE 1]
      [] text = "a" -> [dir |-> 1, norm |-> 1]
      [] text = "b" -> [dir |-> 2, norm |-> 2]
      [] OTHER      -> [dir |-> 3, norm |-> 3]

\* faiss.normalize_L2: scales to length 1; a vector of length 0 is left alone.
NormalizeL2(v) == IF v.norm > 0 THEN [v EXCEPT !.norm = 1] ELSE v

\* Cosine of two directions, in ten-thousandths.
Cosine(d, e) ==
    IF d = e THEN 10000
    ELSE IF {d, e} = {1, 2} THEN 9000
    ELSE IF {d, e} = {1, 3} THEN 8999
    ELSE IF {d, e} = {2, 3} THEN 9500
    ELSE 2000

\* IndexFlatIP's metric.
InnerProduct(u, v) == u.norm * v.norm * Cosine(u.dir, v.dir)

\* index.search(vector, 1): D[0][0], the largest inner product (index not empty).
Top1(index, vector) ==
    LET scores == {InnerProduct(index[i], vector) : i \in 1..Len(index)}
    IN  CHOOSE s \in scores : \A r \in scores : r <= s

-----------------------------------------------------------------------------
(* Files *)

\* with open(HASH_PATH, "w") as f: json.dump(hashes, f)
DumpHashes(hashes) == [st |-> "ok", data |-> hashes]

\* faiss.write_index(index, INDEX_PATH)
WriteIndex(index) == [st |-> "ok", data |-> index]

\* faiss.IndexFlatIP(dimension): an index with ntotal = 0.
IndexFlatIP == <<>>

\* The fresh index returned without writing it to INDEX_PATH.
get_faiss_index_unwritten(f) ==
    IF f.st = "ok" THEN [loaded |-> f.data, file |-> f]
    ELSE [loaded |-> IndexFlatIP, file |-> f]

\* get_faiss_index: the index it returns and the file it leaves behind. A
\* missing file, or one read_index raises on, is replaced by a fresh index.
get_faiss_index(f) ==
    IF f.st = "ok" THEN [loaded |-> f.data, file |-> f]
    ELSE [loaded |-> IndexFlatIP, file |-> WriteIndex(IndexFlatIP)]

\* index.ntotal of what get_faiss_index would return.
ntotal(f) == Len(get_faiss_index(f).loaded)

-----------------------------------------------------------------------------
(* vector_store.search_duplicate *)

\* Similarity at or above which a text counts as a duplicate (0.90).
Threshold == 9000

\* Score of an exact hash match (1.0).
ExactScore == 10000

\* if os.path.exists(HASH_PATH): try: ... img_hash and img_hash in hashes
\* except Exception: pass
HashMatch(f, img_hash) == f.st = "ok" /\ img_hash # "" /\ img_hash \in f.data

\* The comparison with > in place of >=.
IsDuplicateStrict(D) == D > Threshold

\* D[0][0] >= 0.90
IsDuplicate(D) == D >= Threshold

Returned(is_dup, score, file) ==
    [raised |-> FALSE, is_dup |-> is_dup, score |-> score, indexFile |-> file]

\* The exception swallowed and answered with "not a duplicate".
RaisedMasked(file) == Returned(FALSE, 0, file)

\* An exception leaves the function: there is no return value.
Raised(file) ==
    [raised |-> TRUE, is_dup |-> FALSE, score |-> 0, indexFile |-> file]

\* The semantic half of search_duplicate, lines 49-65.
SemanticMatch(m, xf, text, prov) ==
    LET g == get_faiss_index(xf)
    IN  IF Len(g.loaded) = 0 THEN Returned(FALSE, 0, g.file)
        ELSE IF prov = "down" THEN Raised(g.file)
        ELSE LET D == Top1(g.loaded, NormalizeL2(Encode(m, text)))
             IN  IF IsDuplicate(D) THEN Returned(TRUE, D, g.file)
                 ELSE Returned(FALSE, 0, g.file)

\* search_duplicate(text, img_hash): its outcome and the docs.index it leaves.
search_duplicate(m, hf, xf, text, img_hash, prov) ==
    IF HashMatch(hf, img_hash) THEN Returned(TRUE, ExactScore, xf)
    ELSE SemanticMatch(m, xf, text, prov)

-----------------------------------------------------------------------------
(* vector_store.add_to_index *)

\* hashes = {}; if exists: try: hashes = json.load(f) except: hashes = {}
LoadHashes(f) == IF f.st = "ok" THEN f.data ELSE {}

\* The key set but the dict never dumped.
StoreHashNotDumped(f, img_hash) == f

\* The key stored without the test of img_hash.
StoreHashUnguarded(f, img_hash) == DumpHashes(LoadHashes(f) \cup {img_hash})

\* A key already loaded dropped instead of kept.
StoreHashToggled(f, img_hash) ==
    IF img_hash = "" THEN f
    ELSE IF img_hash \in LoadHashes(f)
         THEN DumpHashes(LoadHashes(f) \ {img_hash})
         ELSE DumpHashes(LoadHashes(f) \cup {img_hash})

\* if img_hash: hashes[img_hash] = True; dump
StoreHash(f, img_hash) ==
    IF img_hash # "" THEN DumpHashes(LoadHashes(f) \cup {img_hash}) ELSE f

\* index = get_faiss_index(); index.add(vector); faiss.write_index(index, ...)
StoreVector(xf, vector) == WriteIndex(Append(get_faiss_index(xf).loaded, vector))

\* add_to_index(text, img_hash): the two files it leaves, and whether it
\* raised (model.encode is called after hash.json is written).
add_to_index(m, hf, xf, text, img_hash, prov) ==
    IF prov = "down"
    THEN [raised |-> TRUE, hashFile |-> StoreHash(hf, img_hash), indexFile |-> xf]
    ELSE [raised |-> FALSE, hashFile |-> StoreHash(hf, img_hash),
          indexFile |-> StoreVector(xf, NormalizeL2(Encode(m, text)))]

-----------------------------------------------------------------------------
(* main.py: score fusion of upload_scan *)

TamperScore == 90
MetaScore == 85
DupScore == 100
PiiBonus == 20
PiiCeiling == 30
CriticalFrom == 70
WarningFrom == 30
ScoreCap == 100

Max(a, b) == IF a >= b THEN a ELSE b
Min(a, b) == IF a <= b THEN a ELSE b

\* if tamper_msg: fraud_score = max(fraud_score, 90)
TamperStep(score, tamper) == IF tamper THEN Max(score, TamperScore) ELSE score

\* if meta_issue: fraud_score = max(fraud_score, 85)
MetaStep(score, meta) == IF meta THEN Max(score, MetaScore) ELSE score

\* if is_dup: fraud_score = 100
DupStep(score, is_dup) == IF is_dup THEN DupScore ELSE score

\* The bonus added whatever the score is.
PiiStepUnguarded(score, pii) == IF pii THEN score + PiiBonus ELSE score

\* The two literals of line 238 taken for each other.
PiiStepSwapped(score, pii) == IF pii /\ score < PiiBonus THEN score + PiiCeiling ELSE score

\* if pii_found: ... if fraud_score < 30: fraud_score += 20
PiiStep(score, pii) == IF pii /\ score < PiiCeiling THEN score + PiiBonus ELSE score

\* fraud_score as line 240 sees it.
FraudScore(tamper, meta, is_dup, pii) ==
    PiiStep(DupStep(MetaStep(TamperStep(0, tamper), meta), is_dup), pii)

\* The anomalies list, by type, in the order of the appends.
Anomalies(tamper, meta, is_dup, pii) ==
       (IF tamper THEN <<"Forensic Tampering">> ELSE <<>>)
    \o (IF meta THEN <<"Metadata Fraud">> ELSE <<>>)
    \o (IF is_dup THEN <<"Duplicate Discovery">> ELSE <<>>)
    \o (IF pii THEN <<"PII Detected">> ELSE <<>>)

\* The two tests of line 240 in the other order.
SeverityWarningFirst(score) ==
    IF score >= WarningFrom THEN "WARNING"
    ELSE IF score >= CriticalFrom THEN "CRITICAL"
    ELSE "SAFE"

\* "CRITICAL" if fraud_score >= 70 else "WARNING" if fraud_score >= 30 else "SAFE"
Severity(score) ==
    IF score >= CriticalFrom THEN "CRITICAL"
    ELSE IF score >= WarningFrom THEN "WARNING"
    ELSE "SAFE"

\* result: the fraud_score, severity and anomalies (by type) of the dict stored in db.
Result(tamper, meta, is_dup, pii) ==
    LET fraud_score == FraudScore(tamper, meta, is_dup, pii)
    IN  [fraud_score |-> Min(ScoreCap, fraud_score),
         severity |-> Severity(fraud_score),
         anomalies |-> Anomalies(tamper, meta, is_dup, pii)]

-----------------------------------------------------------------------------
(* main.py: reset_system_data, and the handlers *)

\* The secret of manual_reset.
Keys == {"ap_finance_2025", "other"}

Workers == {1, 2}

\* A worker process between two requests. Of a request it keeps the text and
\* hash, the verdict of search_duplicate, whether add_to_index ran to its
\* end, and, while add_to_index runs, its locals hashes and index.
Idle ==
    [pc |-> "idle", text |-> "", hash |-> "", is_dup |-> FALSE, score |-> 0,
     committed |-> FALSE, hashes |-> {}, index |-> <<>>]

\* What a call record keeps of the call before it: the hash a completed
\* add_to_index stored, the keys a reset wiped; nothing of the other calls.
Brief(c) ==
    IF c.op = "add_to_index" /\ c.committed THEN [op |-> "add_to_index", arg |-> {c.hash}]
    ELSE IF c.op \in {"manual_reset", "lifespan"} /\ ~c.raised THEN [op |-> c.op, arg |-> c.wiped]
    ELSE [op |-> "other", arg |-> {}]

NoBrief == [op |-> "other", arg |-> {}]

\* A call record: the arguments, the outcome, what a reset wiped (the keys of
\* hash.json before it), and the call before.
NoCall(op, prev) ==
    [op |-> op, text |-> "", hash |-> "", provider |-> "up", raised |-> FALSE,
     is_dup |-> FALSE, score |-> 0, committed |-> FALSE,
     wiped |-> {}, prev |-> prev]

\* The reset without its third step: docs.index is left as it is.
reset_system_data_keeps_index ==
    /\ db' = <<>>
    /\ hashFile' = DumpHashes({})
    /\ indexFile' = indexFile

\* reset_system_data: db.clear(), hash.json := {}, docs.index := a fresh index.
reset_system_data ==
    /\ db' = <<>>
    /\ hashFile' = DumpHashes({})
    /\ indexFile' = WriteIndex(IndexFlatIP)

\* The state a started process is in: lifespan has run reset_system_data.
Init ==
    /\ model \in Models
    /\ hashFile = DumpHashes({})
    /\ indexFile = WriteIndex(IndexFlatIP)
    /\ db = <<>>
    /\ call = NoCall("lifespan", NoBrief)
    /\ procs = [w \in Workers |-> Idle]

\* A start that loads the stores instead of resetting them.
LifespanKeepsStores ==
    /\ db' = <<>>
    /\ call' = [NoCall("lifespan", Brief(call)) EXCEPT !.wiped = hashFile.data]
    /\ UNCHANGED <<model, hashFile, indexFile, procs>>

\* The process stops and starts again: lifespan runs reset_system_data.
Lifespan ==
    /\ reset_system_data
    /\ call' = [NoCall("lifespan", Brief(call)) EXCEPT !.wiped = hashFile.data]
    /\ UNCHANGED <<model, procs>>

\* GET /api/v1/admin/reset?key=...
ManualReset(key) ==
    /\ IF key = "ap_finance_2025"
       THEN /\ reset_system_data
            /\ call' = [NoCall("manual_reset", Brief(call)) EXCEPT
                           !.wiped = hashFile.data]
       ELSE /\ call' = [NoCall("manual_reset", Brief(call)) EXCEPT !.raised = TRUE]
            /\ UNCHANGED <<db, hashFile, indexFile>>
    /\ UNCHANGED <<model, procs>>

\* A caller invokes search_duplicate(text, img_hash).
SearchDuplicate(text, img_hash, prov) ==
    \E r \in {search_duplicate(model, hashFile, indexFile, text, img_hash, prov)} :
        /\ indexFile' = r.indexFile
        /\ call' = [NoCall("search_duplicate", Brief(call)) EXCEPT
                       !.text = text, !.hash = img_hash, !.provider = prov,
                       !.raised = r.raised, !.is_dup = r.is_dup, !.score = r.score]
        /\ UNCHANGED <<model, hashFile, db, procs>>

\* A caller invokes add_to_index(text, img_hash).
AddToIndex(text, img_hash, prov) ==
    \E r \in {add_to_index(model, hashFile, indexFile, text, img_hash, prov)} :
        /\ ntotal(indexFile) < MaxIndex
        /\ hashFile' = r.hashFile
        /\ indexFile' = r.indexFile
        /\ call' = [NoCall("add_to_index", Brief(call)) EXCEPT
                       !.text = text, !.hash = img_hash, !.provider = prov,
                       !.raised = r.raised, !.committed = ~r.raised]
        /\ UNCHANGED <<model, db, procs>>

\* hash.json is lost or damaged outside the program.
HashFileFault(st) ==
    /\ hashFile.st = "ok"
    /\ hashFile' = [st |-> st, data |-> {}]
    /\ call' = NoCall("fault", Brief(call))
    /\ UNCHANGED <<model, indexFile, db, procs>>

\* docs.index is lost or damaged outside the program.
IndexFileFault(st) ==
    /\ indexFile.st = "ok"
    /\ indexFile' = [st |-> st, data |-> <<>>]
    /\ call' = NoCall("fault", Brief(call))
    /\ UNCHANGED <<model, hashFile, db, procs>>

\* The entry points of the duplicate store, called one after the other.
Next ==
    \/ \E t \in Texts, h \in Hashes, p \in Provider : SearchDuplicate(t, h, p)
    \/ \E t \in Texts, h \in Hashes, p \in Provider : AddToIndex(t, h, p)
    \/ \E k \in Keys : ManualReset(k)
    \/ Lifespan
    \/ \E st \in {"missing", "bad"} : HashFileFault(st)
    \/ \E st \in {"missing", "bad"} : IndexFileFault(st)

Spec == Init /\ [][Next]_vars

-----------------------------------------------------------------------------
(* The duplicate store under read failures that pass: the bytes of a file   *)
(* stay on disk while open / json.load / faiss.read_index raises, and load  *)
(* again later. st is "bad" while reading raises; data is what is on disk.  *)

\* Reading hash.json starts to raise (lines 40-41, 77-78).
HashFileUnreadable ==
    /\ hashFile.st = "ok"
    /\ hashFile' = [hashFile EXCEPT !.st = "bad"]
    /\ call' = NoCall("fault", Brief(call))
    /\ UNCHANGED <<model, indexFile, db, procs>>

\* Reading docs.index starts to raise (line 22).
IndexFileUnreadable ==
    /\ indexFile.st = "ok"
    /\ indexFile' = [indexFile EXCEPT !.st = "bad"]
    /\ call' = NoCall("fault", Brief(call))
    /\ UNCHANGED <<model, hashFile, db, procs>>

\* hash.json, not rewritten meanwhile, loads again.
HashFileReadable ==
    /\ hashFile.st = "bad"
    /\ hashFile' = [hashFile EXCEPT !.st = "ok"]
    /\ call' = NoCall("fault", Brief(call))
    /\ UNCHANGED <<model, indexFile, db, procs>>

\* docs.index, not rewritten meanwhile, loads again.
IndexFileReadable ==
    /\ indexFile.st = "bad"
    /\ indexFile' = [indexFile EXCEPT !.st = "ok"]
    /\ call' = NoCall("fault", Brief(call))
    /\ UNCHANGED <<model, hashFile, db, procs>>

\* search_duplicate and add_to_index called one after the other between two
\* resets, with read failures coming and going.
NextFault ==
    \/ \E t \in Texts, h \in Hashes, p \in Provider : SearchDuplicate(t, h, p)
    \/ \E t \in Texts, h \in Hashes, p \in Provider : AddToIndex(t, h, p)
    \/ HashFileUnreadable
    \/ IndexFileUnreadable
    \/ HashFileReadable
    \/ IndexFileReadable

SpecFault == Init /\ [][NextFault]_vars

-----------------------------------------------------------------------------
(* main.upload_scan, one request after the other *)

\* detect_pii(text): nothing is found in an empty text; of the other texts,
\* "a" and "c" carry a PAN or Aadhaar number.
detect_pii(text) == text \in {"a", "c"}

\* POST /api/v1/scan/upload in one process: search_duplicate, the detectors
\* (tamper_msg and meta_issue depend on the file's bytes), the fusion,
\* add_to_index unless a duplicate was found, and the result stored in db. An
\* exception of search_duplicate or add_to_index ends the request before db is
\* written.
upload_scan(text, img_hash, prov, tamper, meta) ==
    \E s \in {search_duplicate(model, hashFile, indexFile, text, img_hash, prov)} :
    \E a \in {add_to_index(model, hashFile, s.indexFile, text, img_hash, prov)} :
    \E commits \in {~s.raised /\ ~s.is_dup} :
    \E failed \in {s.raised \/ (commits /\ a.raised)} :
        /\ commits => ntotal(indexFile) < MaxIndex
        /\ hashFile' = IF commits THEN a.hashFile ELSE hashFile
        /\ indexFile' = IF commits THEN a.indexFile ELSE s.indexFile
        /\ db' = IF failed THEN db
                 ELSE <<Result(tamper, meta, s.is_dup, detect_pii(text))>>
        /\ call' = [NoCall("upload_scan", Brief(call)) EXCEPT
                       !.text = text, !.hash = img_hash, !.provider = prov,
                       !.raised = failed, !.is_dup = s.is_dup, !.score = s.score,
                       !.committed = commits /\ ~a.raised]
        /\ UNCHANGED <<model, procs>>

NextUpload ==
    \/ \E t \in Texts, h \in Hashes, p \in Provider, tamper \in BOOLEAN, meta \in BOOLEAN :
          upload_scan(t, h, p, tamper, meta)
    \/ \E k \in Keys : ManualReset(k)
    \/ Lifespan

SpecUpload == Init /\ [][NextUpload]_vars

-----------------------------------------------------------------------------
(* main.upload_scan in two server processes on one working directory.       *)
(* Inside one process upload_scan does not await between search_duplicate   *)
(* and add_to_index, so requests of one process do not interleave; requests *)
(* of different processes do, file operation by file operation, since       *)
(* vector_store.py takes no lock on hash.json or docs.index.                *)

\* The documents uploaded while two processes run side by side.
ConcTexts == {"a", "c"}
ConcHashes == {"h1", "h2"}

\* A file opened for writing and not yet written: loading it raises.
Truncated(data) == [st |-> "bad", data |-> data]

InFlight == Cardinality({w \in Workers : procs[w].pc # "idle"})

\* A request arrives: text and img_hash are extracted (lines 205, 215).
Begin(w, text, img_hash) ==
    /\ procs[w].pc = "idle"
    /\ ntotal(indexFile) + InFlight < MaxIndex
    /\ procs' = [procs EXCEPT ![w] =
                    [Idle EXCEPT !.pc = "search_hash", !.text = text, !.hash = img_hash]]
    /\ UNCHANGED <<model, hashFile, indexFile, db, call>>

\* search_duplicate, lines 38-46: hash.json is read.
SearchHash(w) ==
    /\ procs[w].pc = "search_hash"
    /\ procs' = [procs EXCEPT ![w] =
                    IF HashMatch(hashFile, procs[w].hash)
                    THEN [@ EXCEPT !.pc = "store", !.is_dup = TRUE, !.score = ExactScore]
                    ELSE [@ EXCEPT !.pc = "search_index"]]
    /\ UNCHANGED <<model, hashFile, indexFile, db, call>>

\* search_duplicate, lines 49-65: docs.index is read and searched.
SearchIndex(w) ==
    /\ procs[w].pc = "search_index"
    /\ \E s \in {SemanticMatch(model, indexFile, procs[w].text, "up")} :
          /\ indexFile' = s.indexFile
          /\ procs' = [procs EXCEPT ![w] =
                          [@ EXCEPT !.pc = IF s.is_dup THEN "store" ELSE "add_load_hashes",
                                    !.is_dup = s.is_dup, !.score = s.score]]
    /\ UNCHANGED <<model, hashFile, db, call>>

\* add_to_index, lines 74-80: hash.json is read into hashes.
AddLoadHashes(w) ==
    /\ procs[w].pc = "add_load_hashes"
    /\ procs' = [procs EXCEPT ![w] =
                    [@ EXCEPT !.pc = IF procs[w].hash # "" THEN "add_open_hashes"
                                     ELSE "add_load_index",
                              !.hashes = LoadHashes(hashFile)]]
    /\ UNCHANGED <<model, hashFile, indexFile, db, call>>

\* add_to_index, line 84: open(HASH_PATH, "w") empties hash.json.
AddOpenHashes(w) ==
    /\ procs[w].pc = "add_open_hashes"
    /\ hashFile' = Truncated({})
    /\ procs' = [procs EXCEPT ![w] = [@ EXCEPT !.pc = "add_dump_hashes"]]
    /\ UNCHANGED <<model, indexFile, db, call>>

\* add_to_index, lines 83 and 85: hashes, with the new key, is dumped.
AddDumpHashes(w) ==
    /\ procs[w].pc = "add_dump_hashes"
    /\ hashFile' = DumpHashes(procs[w].hashes \cup {procs[w].hash})
    /\ procs' = [procs EXCEPT ![w] = [@ EXCEPT !.pc = "add_load_index", !.hashes = {}]]
    /\ UNCHANGED <<model, indexFile, db, call>>

\* add_to_index, lines 88-92: the text is encoded, docs.index is read and the
\* vector added to the index in memory.
AddLoadIndex(w) ==
    /\ procs[w].pc = "add_load_index"
    /\ \E g \in {get_faiss_index(indexFile)} :
          /\ indexFile' = g.file
          /\ procs' = [procs EXCEPT ![w] =
                          [@ EXCEPT !.pc = "add_open_index",
                                    !.index = Append(g.loaded,
                                                NormalizeL2(Encode(model, procs[w].text)))]]
    /\ UNCHANGED <<model, hashFile, db, call>>

\* add_to_index, line 95: write_index opens docs.index for writing.
AddOpenIndex(w) ==
    /\ procs[w].pc = "add_open_index"
    /\ indexFile' = Truncated(<<>>)
    /\ procs' = [procs EXCEPT ![w] = [@ EXCEPT !.pc = "add_write_index"]]
    /\ UNCHANGED <<model, hashFile, db, call>>

\* add_to_index, line 95: write_index writes the index and returns.
AddWriteIndex(w) ==
    /\ procs[w].pc = "add_write_index"
    /\ indexFile' = WriteIndex(procs[w].index)
    /\ procs' = [procs EXCEPT ![w] =
                    [@ EXCEPT !.pc = "store", !.committed = TRUE, !.index = <<>>]]
    /\ UNCHANGED <<model, hashFile, db, call>>

\* upload_scan, lines 217-262: the detectors, the fusion, db[task_id] = result.
Store(w, tamper, meta) ==
    /\ procs[w].pc = "store"
    /\ db' = <<Result(tamper, meta, procs[w].is_dup, detect_pii(procs[w].text))>>
    /\ procs' = [procs EXCEPT ![w] = [@ EXCEPT !.pc = "idle"]]
    /\ UNCHANGED <<model, hashFile, indexFile, call>>

NextConc ==
    \/ \E w \in Workers, t \in ConcTexts, h \in ConcHashes : Begin(w, t, h)
    \/ \E w \in Workers : SearchHash(w)
    \/ \E w \in Workers : SearchIndex(w)
    \/ \E w \in Workers : AddLoadHashes(w)
    \/ \E w \in Workers : AddOpenHashes(w)
    \/ \E w \in Workers : AddDumpHashes(w)
    \/ \E w \in Workers : AddLoadIndex(w)
    \/ \E w \in Workers : AddOpenIndex(w)
    \/ \E w \in Workers : AddWriteIndex(w)
    \/ \E w \in Workers, tamper \in BOOLEAN, meta \in BOOLEAN : Store(w, tamper, meta)

InitConc == Init /\ model = "unit_on_empty"

SpecConc == InitConc /\ [][NextConc]_vars

-----------------------------------------------------------------------------
(* Properties of the duplicate store under Spec *)

\* The embedding of a call's text, as search_duplicate and add_to_index use it.
Vector(text) == NormalizeL2(Encode(model, text))

NotDuplicate(c) == ~c.raised /\ ~c.is_dup /\ c.score = 0

ExactDuplicate(c) == ~c.raised /\ c.is_dup /\ c.score = 10000

AfterCommitOfSameHash ==
    /\ call.op = "search_duplicate"
    /\ call.prev.op = "add_to_index"
    /\ call.hash \in call.prev.arg

\* C1 as stated: a search_duplicate that directly follows a completed
\* add_to_index with the same hash returns (True, 1.0), for every hash, the
\* missing hash "" included (embedding provider available).
C1_CommitThenFindAnyHash ==
    AfterCommitOfSameHash /\ call.provider = "up" => ExactDuplicate(call)

\* C1 amended: for every non-empty hash, a search_duplicate that directly
\* follows a completed add_to_index with the same hash returns (True, 1.0),
\* whatever the text, the index and the embedding provider do.
C1_CommitThenFind ==
    AfterCommitOfSameHash /\ call.hash # "" => ExactDuplicate(call)

\* C1 witness: right after h1 was committed, a search with h1, a text below
\* the threshold against everything indexed, and the provider down.
C1_Witness ==
    /\ AfterCommitOfSameHash
    /\ call.hash = "h1" /\ call.text = "c" /\ call.provider = "down"
    /\ Len(indexFile.data) > 0
    /\ Top1(indexFile.data, Vector("c")) < 9000
    /\ ExactDuplicate(call)

\* C2: a search_duplicate that returns gives (False, 0.0) or (True, c) with
\* c >= 0.90; when the hash does not match and the index is not empty it gives
\* (True, s) exactly when the top-1 similarity s is >= 0.90.
C2_Threshold ==
    call.op = "search_duplicate" /\ ~call.raised =>
        /\ \/ call.is_dup /\ call.score >= 9000
           \/ ~call.is_dup /\ call.score = 0
        /\ ~HashMatch(hashFile, call.hash) /\ Len(indexFile.data) > 0 =>
              LET s == Top1(indexFile.data, Vector(call.text))
              IN  IF s >= 9000 THEN call.is_dup /\ call.score = s
                  ELSE NotDuplicate(call)

\* C2 witness: a top-1 similarity of exactly 0.90 reported as a duplicate.
C2_Witness ==
    /\ call.op = "search_duplicate" /\ ~call.raised
    /\ ~HashMatch(hashFile, call.hash) /\ Len(indexFile.data) > 0
    /\ Top1(indexFile.data, Vector(call.text)) = 9000
    /\ call.is_dup /\ call.score = 9000

\* C3: after a reset hash.json holds none of the hashes it held and docs.index
\* has no entry, and the search_duplicate that follows returns (False, 0.0)
\* for every text and hash.
C3_ResetEmpties ==
    /\ call.op = "manual_reset" /\ ~call.raised =>
          /\ \A h \in call.wiped : ~HashMatch(hashFile, h)
          /\ hashFile.st = "ok" /\ hashFile.data = {}
          /\ indexFile.st = "ok" /\ Len(indexFile.data) = 0
    /\ call.op = "search_duplicate" /\ call.prev.op = "manual_reset" =>
          NotDuplicate(call)

\* C3 witness: the search after a reset asks for a hash the reset wiped.
C3_Witness ==
    /\ call.op = "search_duplicate" /\ call.prev.op = "manual_reset"
    /\ call.hash \in call.prev.arg
    /\ call.text # ""
    /\ NotDuplicate(call)

\* C4 as stated: a hash committed before the process restarted is still
\* reported as a duplicate by the first search_duplicate after the restart.
C4_SurvivesRestart ==
    /\ call.op = "search_duplicate" /\ call.prev.op = "lifespan"
    /\ call.hash \in call.prev.arg
    => call.is_dup

\* C4 amended: every process start runs reset_system_data, so after a restart
\* both stores are empty and the search_duplicate that follows returns
\* (False, 0.0), also for a document committed before the restart.
C4_RestartResets ==
    /\ call.op = "lifespan" =>
          /\ hashFile.st = "ok" /\ hashFile.data = {}
          /\ indexFile.st = "ok" /\ Len(indexFile.data) = 0
    /\ call.op = "search_duplicate" /\ call.prev.op = "lifespan" =>
          NotDuplicate(call)

\* C4 witness: the search after a restart asks for a hash stored before it.
C4_Witness ==
    /\ call.op = "search_duplicate" /\ call.prev.op = "lifespan"
    /\ call.hash \in call.prev.arg
    /\ NotDuplicate(call)

\* C6: search_duplicate with empty text and empty hash returns (False, 0.0)
\* in every reachable state of the stores (embedding provider available).
C6_EmptyInputIsNoDuplicate ==
    /\ call.op = "search_duplicate"
    /\ call.text = "" /\ call.hash = "" /\ call.provider = "up"
    => NotDuplicate(call)

\* C8: after add_to_index was called with a non-empty hash (and a text with a
\* proper embedding), whether it returned or raised, the document is found by
\* its hash exactly when it is found by its text.
C8_AllOrNothing ==
    /\ call.op = "add_to_index" /\ call.hash # ""
    /\ Vector(call.text).norm = 1
    => (HashMatch(hashFile, call.hash)
          <=> /\ ntotal(indexFile) > 0
              /\ Top1(get_faiss_index(indexFile).loaded, Vector(call.text)) >= 9000)

HashMiss == call.op = "search_duplicate" /\ ~HashMatch(hashFile, call.hash)

\* C9 as stated: with the embedding provider down and no hash match,
\* search_duplicate raises, whether or not the index is empty.
C9_ProviderDownRaises ==
    HashMiss /\ call.provider = "down" => call.raised

\* C9 amended: with the embedding provider down and no hash match,
\* search_duplicate raises when the index is not empty; on an empty index it
\* does not consult the provider and returns (False, 0.0).
C9_ProviderDownRaisesUnlessEmpty ==
    HashMiss /\ call.provider = "down" =>
        IF ntotal(indexFile) > 0 THEN call.raised ELSE NotDuplicate(call)

\* C9 witness: the provider is down, the hash is unknown, the index holds a
\* vector, and the call raised.
C9_Witness ==
    /\ HashMiss /\ call.provider = "down"
    /\ call.hash # "" /\ ntotal(indexFile) > 0
    /\ call.raised

\* What a file that fails to load counts as.
AsEmptyHashFile(f) == IF f.st = "ok" THEN f ELSE [st |-> "ok", data |-> {}]
AsEmptyIndexFile(f) == IF f.st = "ok" THEN f ELSE [st |-> "ok", data |-> <<>>]

\* C10: on a hash.json or docs.index that is missing or fails to load,
\* search_duplicate and add_to_index do what they do on empty stores: the same
\* outcome and the same store contents, no exception except the embedding
\* provider's, and a docs.index that failed to load is replaced by a fresh
\* empty one as soon as it is consulted.
C10_LoadFailureIsEmptyStore ==
    [][ (hashFile.st # "ok" \/ indexFile.st # "ok") =>
          LET hf == AsEmptyHashFile(hashFile)
              xf == AsEmptyIndexFile(indexFile)
              s  == search_duplicate(model, hf, xf, call'.text, call'.hash, call'.provider)
              a  == add_to_index(model, hf, xf, call'.text, call'.hash, call'.provider)
          IN  /\ call'.op = "search_duplicate" =>
                    /\ call'.raised = s.raised
                    /\ call'.is_dup = s.is_dup /\ call'.score = s.score
                    /\ AsEmptyIndexFile(indexFile') = s.indexFile
                    /\ hashFile' = hashFile
                    /\ call'.raised => call'.provider = "down" /\ Len(xf.data) > 0
                    /\ indexFile.st # "ok" /\ ~HashMatch(hashFile, call'.hash) =>
                          /\ NotDuplicate(call')
                          /\ indexFile' = [st |-> "ok", data |-> <<>>]
              /\ call'.op = "add_to_index" =>
                    /\ call'.raised = a.raised
                    /\ AsEmptyIndexFile(indexFile') = a.indexFile
                    /\ AsEmptyHashFile(hashFile') = a.hashFile
                    /\ call'.raised => call'.provider = "down"
                    /\ ~call'.raised /\ indexFile.st # "ok" =>
                          indexFile'.st = "ok" /\ Len(indexFile'.data) = 1
                    /\ hashFile.st # "ok" /\ call'.hash # "" =>
                          hashFile' = [st |-> "ok", data |-> {call'.hash}]
      ]_vars

\* C10 witness: a search_duplicate that ran on a damaged hash.json and a
\* non-empty index, and returned.
C10_Witness ==
    /\ call.op = "search_duplicate"
    /\ hashFile.st = "bad"
    /\ Len(indexFile.data) > 0
    /\ call.hash # ""
    /\ ~call.raised

\* C11: the empty string is never a key of hash.json, and add_to_index with
\* an empty hash leaves hash.json as it is, raises only when the embedding
\* provider does, and otherwise appends the text's vector to docs.index.
C11_EmptyHashNeverStored ==
    /\ []("" \notin hashFile.data)
    /\ [][ call'.op = "add_to_index" /\ call'.hash = "" =>
              /\ hashFile' = hashFile
              /\ call'.raised <=> call'.provider = "down"
              /\ ~call'.raised =>
                    /\ indexFile'.st = "ok"
                    /\ indexFile'.data =
                          Append(get_faiss_index(indexFile).loaded,
                                 NormalizeL2(Encode(model, call'.text)))
       ]_vars

\* C11 witness: add_to_index with an empty hash returned, hash.json still
\* holds the one key it held, and docs.index holds a second vector.
C11_Witness ==
    /\ call.op = "add_to_index" /\ call.hash = "" /\ call.committed
    /\ hashFile.st = "ok" /\ hashFile.data = {"h1"}
    /\ Len(indexFile.data) = 2
    /\ indexFile.data[2] = Vector(call.text)

\* C18: add_to_index called with a non-empty hash directly after an
\* add_to_index that stored the same hash raises only when the embedding
\* provider does, and leaves hash.json with the same keys, the hash among them.
C18_CommitTwice ==
    [][ /\ call.op = "add_to_index" /\ call.committed /\ call.hash # ""
        /\ call'.op = "add_to_index" /\ call'.hash = call.hash
        => /\ call'.raised <=> call'.provider = "down"
           /\ HashMatch(hashFile', call'.hash)
           /\ hashFile'.data = hashFile.data
      ]_vars

\* C18 witness: the second add_to_index with h2 returned; hash.json holds h1
\* and h2 as before.
C18_Witness ==
    /\ call.op = "add_to_index" /\ call.committed
    /\ call.prev.op = "add_to_index" /\ call.hash \in call.prev.arg
    /\ call.hash = "h2"
    /\ hashFile.data = {"h1", "h2"}

-----------------------------------------------------------------------------
(* Properties of the duplicate store under SpecFault *)

\* C15: no call of search_duplicate or add_to_index between two resets, a
\* call that fails to read a file included, removes a key from hash.json or
\* leaves docs.index with fewer vectors than it held.
C15_StoresOnlyGrow ==
    [][ call'.op \in {"search_duplicate", "add_to_index"} =>
           /\ hashFile.data \subseteq hashFile'.data
           /\ Len(indexFile.data) <= Len(indexFile'.data)
      ]_vars

\* C16: search_duplicate leaves the keys of hash.json and the vectors of
\* docs.index as they were.
C16_SearchLeavesStores ==
    [][ call'.op = "search_duplicate" =>
           /\ hashFile'.data = hashFile.data
           /\ indexFile'.data = indexFile.data
      ]_vars

-----------------------------------------------------------------------------
(* Properties of upload_scan under SpecUpload *)

\* Whether the result in db lists an anomaly of the type.
Has(type) == \E i \in 1..Len(db[1].anomalies) : db[1].anomalies[i] = type

\* C5: the fraud score stored with a result is 100 when a duplicate anomaly is
\* listed, else 90 with tampering, else 85 with metadata, else 20 with PII
\* alone, else 0; it is never outside 0..100.
C5_FusedScore ==
    db # <<>> =>
        /\ db[1].fraud_score =
              IF Has("Duplicate Discovery") THEN 100
              ELSE IF Has("Forensic Tampering") THEN 90
              ELSE IF Has("Metadata Fraud") THEN 85
              ELSE IF Has("PII Detected") THEN 20
              ELSE 0
        /\ db[1].fraud_score >= 0 /\ db[1].fraud_score <= 100

\* C5 witness: tampering and PII without a duplicate: 90, the PII bonus not
\* added.
C5_Witness ==
    /\ db # <<>>
    /\ db[1].anomalies = <<"Forensic Tampering", "PII Detected">>
    /\ db[1].fraud_score = 90

\* C12: in every result upload_scan stores, severity is CRITICAL exactly when
\* the reported fraud_score is at least 70, WARNING exactly when it is in
\* 30..69 and SAFE exactly when it is below 30.
C12_SeverityAgrees ==
    db # <<>> =>
        /\ db[1].severity = "CRITICAL" <=> db[1].fraud_score >= 70
        /\ db[1].severity = "WARNING" <=>
              (db[1].fraud_score >= 30 /\ db[1].fraud_score < 70)
        /\ db[1].severity = "SAFE" <=> db[1].fraud_score < 30

\* C12 witness: metadata fraud with PII, reported as 85 and CRITICAL.
C12_Witness ==
    /\ db # <<>>
    /\ db[1].anomalies = <<"Metadata Fraud", "PII Detected">>
    /\ db[1].fraud_score = 85 /\ db[1].severity = "CRITICAL"

\* Two vectors of docs.index at different positions that count as duplicates
\* of each other.
SimilarPair ==
    \E i, j \in DOMAIN indexFile.data :
        i < j /\ InnerProduct(indexFile.data[i], indexFile.data[j]) >= Threshold

\* C13: under uploads, resets and restarts one after the other, no two
\* vectors of docs.index have an inner product of 0.90 or more, and docs.index
\* grows only by an upload that was found no duplicate and whose non-empty
\* hash was not in hash.json before it.
C13_DistinctDocuments ==
    /\ [](~SimilarPair)
    /\ [][ Len(indexFile'.data) > Len(indexFile.data) =>
              /\ call'.op = "upload_scan" /\ ~call'.is_dup /\ call'.committed
              /\ ~HashMatch(hashFile, call'.hash)
              /\ Len(indexFile'.data) = Len(indexFile.data) + 1
       ]_vars

\* C13 witness: docs.index holds the vectors of "a" and "c", and the last
\* upload, "b" with a hash not yet stored, was found a duplicate and not added.
C13_Witness ==
    /\ call.op = "upload_scan" /\ call.is_dup /\ ~call.committed
    /\ call.text = "b" /\ call.hash = "h2" /\ call.score = Threshold
    /\ Len(indexFile.data) = 2
    /\ hashFile.data = {"h1"}

\* C19: every result upload_scan stores has a fraud_score of 0, 20, 85, 90 or
\* 100, and its severity is SAFE or CRITICAL, never WARNING.
C19_NoWarning ==
    db # <<>> =>
        /\ db[1].fraud_score \in {0, 20, 85, 90, 100}
        /\ db[1].severity \in {"SAFE", "CRITICAL"}

\* C19 witness: PII alone, the highest score below CRITICAL: 20 and SAFE.
C19_Witness ==
    /\ db # <<>>
    /\ db[1].anomalies = <<"PII Detected">>
    /\ db[1].fraud_score = 20 /\ db[1].severity = "SAFE"

-----------------------------------------------------------------------------
(* Properties of concurrent uploads under SpecConc *)

Returned2(w) == procs[w].pc = "idle" /\ procs[w].committed

\* C7: once the commits of two documents with distinct non-empty hashes have
\* both returned, hash.json holds both hashes and docs.index both vectors.
C7_NoLostUpdate ==
    /\ Returned2(1) /\ Returned2(2)
    /\ procs[1].hash # "" /\ procs[2].hash # "" /\ procs[1].hash # procs[2].hash
    => /\ hashFile.st = "ok"
       /\ {procs[1].hash, procs[2].hash} \subseteq hashFile.data
       /\ indexFile.st = "ok"
       /\ \A w \in Workers :
             \E i \in 1..Len(indexFile.data) :
                indexFile.data[i] = NormalizeL2(Encode(model, procs[w].text))

\* The upload of worker w has returned.
Finished(w) == procs[w].pc = "idle" /\ procs[w].text # ""

\* C14: once two uploads of the same text and hash, handled side by side,
\* have both returned, they were not both found no duplicate and both added,
\* and docs.index holds the document's vector at most once.
C14_AtMostOneCommitter ==
    /\ Finished(1) /\ Finished(2)
    /\ procs[1].text = procs[2].text /\ procs[1].hash = procs[2].hash
    => /\ ~(/\ ~procs[1].is_dup /\ procs[1].committed
            /\ ~procs[2].is_dup /\ procs[2].committed)
       /\ Cardinality({i \in DOMAIN indexFile.data :
              indexFile.data[i] = NormalizeL2(Encode(model, procs[1].text))}) <= 1

\* C17: search_duplicate of one upload, running beside add_to_index of
\* another, reads hash.json and docs.index only as files that load, never
\* between open-for-writing and the write, and leaves docs.index as it is.
C17_NoTornRead ==
    [][ \A w \in Workers :
           /\ procs[w].pc = "search_hash" /\ procs'[w].pc # "search_hash"
              => hashFile.st = "ok"
           /\ procs[w].pc = "search_index" /\ procs'[w].pc # "search_index"
              => indexFile.st = "ok" /\ indexFile' = indexFile
      ]_vars

====
